---------------------------- MODULE Spec2Model ----------------------------
(***************************************************************************)
(* Model of the THI solar dashboard's ingestion path.                      *)
(*                                                                         *)
(*   ftp_monitor.py  main / _one_check / get_mdtm / download_to            *)
(*   app.py          fetch_pv_data / _download_ftp_csv / log_data          *)
(*                                                                         *)
(* The remote file is an environment object: it carries the modification   *)
(* token the server reports for MDTM and a revision number standing for    *)
(* its content.  A local file is absent or holds 0..FileLen chunks, every  *)
(* chunk of one download coming from the revision the server opened for    *)
(* the RETR.  open(path, 'wb') truncates the destination before the        *)
(* first chunk arrives.                                                    *)
(***************************************************************************)
EXTENDS Integers, Sequences, FiniteSets, TLC

\* ------------------------------------------------------------- bounds
\* Number of distinct modification tokens the server may report.
NumTokens == 2
\* Number of revisions of the remote file (overwrites by its producer).
MaxRev == 3
\* Number of chunks retrbinary delivers for one complete file.
FileLen == 2
\* Largest value of --iterations explored; 0 is the continuous mode.
MaxIterations == 3
\* Value at which the counters of the continuous mode stop counting.
MaxCount == 3
\* Cap on the number of rows of pv_readings.
MaxStore == 3
\* The clock runs for MaxHours hours, and within every hour its first
\* MaxSeconds seconds are told apart.
MaxHours == 2
MaxSeconds == 1
\* Largest number of hours passed to the queries of the store.
MaxWindow == 1
\* Size of the CSV tables given to the parser: columns, data rows, the
\* largest number in a cell and the largest index N of energy_ptot_<N>_kWh.
MaxCols == 2
MaxRows == 2
MaxVal == 1
MaxIdx == 2
\* Size of the headers given to the ordering of the columns: columns, and
\* the largest index N below the sentinel.
MaxSortCols == 4
MaxSortIdx == 10
\* Largest live_power and total_energy given to the derived fields.
MaxPower == 7
MaxEnergy == 100

\* ---------------------------------------------------------- constants
\* prev_mdtm = None, and the None get_mdtm returns.
None == 0
\* The constant named LOCAL in ftp_monitor.py, 'pv.csv': the "latest" file.
\* A path t > 0 is pv_csv_snapshots/pv_<t>.csv.
LOCAL_CSV == 0

Tokens == 1..NumTokens
Paths == {LOCAL_CSV} \cup Tokens
Procs == {"mon", "app"}

\* os.path.join(SNAP_DIR, f"pv_{mdtm}.csv")
SnapName(m) == m

\* ------------------------------------------------------------- files
Absent == [ex |-> FALSE, rev |-> 0, len |-> 0]
\* The file right after open(path, 'wb').
Truncated == [ex |-> TRUE, rev |-> 0, len |-> 0]
Complete(f) == f.ex /\ f.len = FileLen
FileOf(r) == [ex |-> TRUE, rev |-> r, len |-> FileLen]

NoDl == [phase |-> "none", path |-> LOCAL_CSV, rev |-> 0, prior |-> Absent]

VARIABLES
  remote,       \* the remote pvdaten/pv.csv: [mdtm, rev]
  files,        \* local files: Paths -> file
  dl,           \* per process, the download_to call in progress
  iterations,   \* main's argument
  i,            \* ticks completed by the loop
  pc,           \* position of the monitor: check, dl1, dl2, sleep, done
  prev_mdtm,    \* the last-seen token of main
  mdtm,         \* _one_check's local: the token this tick's probe returned
  log,          \* the last line of ftp_monitor.log, less its MDTM lines
  probed,       \* history: some probe has succeeded since startup
  storeAtProbe, \* history: number of stored rows when the tick probed
  probes,       \* history: calls of get_mdtm so far
  sleeps,       \* history: calls of time.sleep that have returned
  store,        \* pv_readings, in insertion order
  appPc,        \* position of the dashboard's fetch_pv_data
  appResult,    \* what the last fetch_pv_data call produced
  data,         \* main's data: the dictionary fetch_pv_data returned
  now,          \* the clock of the database, in seconds
  hist,         \* what the last get_historical_data call returned
  stats,        \* what the last get_data_statistics call returned
  csv,          \* the content of the downloaded pv.csv, where it is modelled
  viewPc,       \* position of show_historical_view: idle, stats
  shown,        \* what show_historical_view rendered last
  derived       \* the products fetch_pv_data derives, as binary64 numbers

vars == <<remote, files, dl, iterations, i, pc, prev_mdtm, mdtm, log,
          probed, storeAtProbe, probes, sleeps, store, appPc, appResult,
          data, now, hist, stats, csv, viewPc, shown, derived>>

monVars == <<iterations, i, pc, prev_mdtm, mdtm, log, probed, storeAtProbe,
             probes, sleeps>>
viewVars == <<now, hist, stats, csv, viewPc, shown, derived>>
appVars == <<store, appPc, appResult, data, viewVars>>

Line(k, s) == [kind |-> k, snap |-> s]

\* ----------------------------------------------------------- values
\* A value of a REAL column or of an aggregate: NULL, or the number num/den.
\* A NaN bound to an INSERT is stored as NULL.
Null == [null |-> TRUE, num |-> 0, den |-> 1]
Real(n, d) == [null |-> FALSE, num |-> n, den |-> d]

\* The dictionary fetch_pv_data builds, less the constant fields and the
\* products ac_power, dc_power and co2_avoided.  production_curve holds the
\* lists 'hours' and 'values'.
Dict(lp, et, te, hs, vs) ==
  [dict |-> TRUE, live_power |-> lp, energy_today |-> et,
   total_energy |-> te, efficiency |-> 92,
   production_curve |-> [hours |-> hs, values |-> vs]]
\* The dictionary of fetch_pv_data's except clause: its curve has a value
\* of 0 for each of the 24 hours of the day.
ZeroDict ==
  [dict |-> TRUE, live_power |-> 0, energy_today |-> Real(0, 1),
   total_energy |-> Real(0, 1), efficiency |-> 0,
   production_curve |-> [hours |-> [h \in 1..24 |-> h - 1],
                         values |-> [h \in 1..24 |-> 0]]]
\* No dictionary: fetch_pv_data has not returned.
NoData ==
  [dict |-> FALSE, live_power |-> 0, energy_today |-> Null,
   total_energy |-> Null, efficiency |-> 0,
   production_curve |-> [hours |-> <<>>, values |-> <<>>]]

\* The content of pv.csv is not modelled: only the file's revision is.
NoCsv == [kind |-> "any", header |-> <<>>, rows |-> <<>>]
NoHist == [called |-> FALSE, hours |-> 0, err |-> FALSE, rows |-> <<>>]
StatKeys ==
  {"reading_count", "avg_power", "max_power", "min_power", "avg_efficiency",
   "avg_daily_energy"}
\* The dictionary with no key, which get_data_statistics returns on an
\* error: its fields are not there to be read.
EmptyStats(c, h) ==
  [called |-> c, hours |-> h, keys |-> {}, reading_count |-> 0,
   avg_power |-> Null, max_power |-> Null, min_power |-> Null,
   avg_efficiency |-> Null, avg_daily_energy |-> Null]
NoStats == EmptyStats(FALSE, 0)
\* show_historical_view has rendered nothing.
NoShown == [kind |-> "none", stats |-> NoStats]

\* A binary64 number: zero, or (-1)^neg * sig * 2^(exp - 52), where sig is
\* the 53-bit significand as the sequence of its bits, the highest (a 1)
\* first, and exp is the exponent of that bit.
Zero64 == [zero |-> TRUE, neg |-> FALSE, exp |-> 0, sig |-> <<>>]
\* The products have not been computed.
NoDerived ==
  [done |-> FALSE, live_power |-> 0, total_energy |-> 0, ac_power |-> Zero64,
   dc_power |-> Zero64, co2_avoided |-> Zero64]

\* ------------------------------------------------------ initial states
InitCommon ==
  /\ remote \in [mdtm : Tokens, rev : {1}]
  /\ files = [p \in Paths |-> Absent]
  /\ dl = [p \in Procs |-> NoDl]
  /\ prev_mdtm = None
  /\ mdtm = None
  /\ log = Line("start", None)
  /\ probed = FALSE
  /\ storeAtProbe = 0
  /\ probes = 0
  /\ sleeps = 0
  /\ store = <<>>
  /\ appPc = "idle"
  /\ appResult = "none"
  /\ data = NoData
  /\ now = 0
  /\ hist = NoHist
  /\ stats = NoStats
  /\ viewPc = "idle"
  /\ shown = NoShown
  /\ derived = NoDerived
  /\ csv = NoCsv
  /\ i = 0

\* The monitor started with some --iterations; the dashboard is not running.
Init ==
  /\ InitCommon
  /\ iterations \in 0..MaxIterations
  /\ pc = "check"

\* ------------------------------------------------------- environment
\* The producer overwrites the remote file.  The token is the file's
\* modification time as the server reports it: it may move to any value,
\* and a rewrite within the token's resolution keeps it.
RemoteOverwrite ==
  /\ remote.rev < MaxRev
  /\ \E t \in Tokens : remote' = [mdtm |-> t, rev |-> remote.rev + 1]
  /\ UNCHANGED <<files, dl, monVars, appVars>>

\* ----------------------------------------------------------- download
\* download_to(path) / _download_ftp_csv(path) is entered.
StartDownload(p, path) ==
  dl' = [dl EXCEPT ![p] = [phase |-> "connect", path |-> path, rev |-> 0,
                           prior |-> files[path]]]

\* FTP(), login, cwd, open(path, 'wb'), RETR: any of the calls before the
\* open may raise and leaves the destination alone; the open truncates it.
DlConnect(p) ==
  /\ dl[p].phase = "connect"
  /\ \/ /\ dl' = [dl EXCEPT ![p].phase = "failed"]
        /\ UNCHANGED files
     \/ /\ dl' = [dl EXCEPT ![p].phase = "retr", ![p].rev = remote.rev]
        /\ files' = [files EXCEPT ![dl[p].path] = Truncated]

\* retrbinary hands one block to f.write, or the transfer breaks.
DlChunk(p) ==
  /\ dl[p].phase = "retr"
  /\ files[dl[p].path].len < FileLen
  /\ \/ /\ files' = [files EXCEPT ![dl[p].path] =
                       [ex |-> TRUE, rev |-> dl[p].rev, len |-> @.len + 1]]
        /\ UNCHANGED dl
     \/ /\ dl' = [dl EXCEPT ![p].phase = "failed"]
        /\ UNCHANGED files

\* Every block has arrived: the server's final reply is read, the file is
\* closed, and the call returns; an error reply still raises.
DlFinish(p) ==
  /\ dl[p].phase = "retr"
  /\ files[dl[p].path].len = FileLen
  /\ \E r \in {"ok", "failed"} : dl' = [dl EXCEPT ![p].phase = r]
  /\ UNCHANGED files

DlStep(p) == DlConnect(p) \/ DlChunk(p) \/ DlFinish(p)

\* --------------------------------------------------------- the monitor
\* The counters of a run: exact in a run of a given number of iterations;
\* in the continuous mode, whose loop never ends, they stop at MaxCount.
Inc(x) == IF iterations > 0 \/ x < MaxCount THEN x + 1 ELSE x

\* Mutant of EndTick: the for loop runs one iteration too many.
EndTick_OffByOne ==
  /\ i' = Inc(i)
  /\ pc' = IF iterations > 0 /\ i + 1 > iterations THEN "done" ELSE "sleep"

\* The end of _one_check and the loop's bookkeeping after it: the for loop
\* sleeps unless this was the last iteration, the while loop always sleeps.
EndTick ==
  /\ i' = Inc(i)
  /\ pc' = IF iterations > 0 /\ i + 1 >= iterations THEN "done" ELSE "sleep"

\* Mutant of Branch: an equal token is taken for a change.
Branch_AlwaysChanged(prev, m) ==
  IF prev = None THEN "initial" ELSE "changed"

\* Mutant of Branch: the first token is only remembered, not fetched.
Branch_FirstUnchanged(prev, m) ==
  IF prev = None THEN "unchanged"
  ELSE IF m # prev THEN "changed"
  ELSE "unchanged"

\* Which branch of _one_check a successful probe takes.
Branch(prev, m) ==
  IF prev = None THEN "initial"
  ELSE IF m # prev THEN "changed"
  ELSE "unchanged"

\* What the MDTM exchange of get_mdtm can come to: an exception (connect,
\* login, timeout), a reply that is not a 213, or "213 <token>".
Replies ==
  { [code |-> "exception", arg |-> None],
    [code |-> "550", arg |-> None],
    [code |-> "213", arg |-> remote.mdtm] }

get_mdtm(reply) == IF reply.code = "213" THEN reply.arg ELSE None

\* Mutant of MonProbeFail: the early return is missing and the failed probe
\* falls through to prev_mdtm = mdtm.
MonProbeFail_FallThrough ==
  /\ pc = "check"
  /\ \E reply \in Replies : get_mdtm(reply) = None
  /\ mdtm' = None
  /\ prev_mdtm' = None
  /\ log' = Line("no_mdtm", None)
  /\ storeAtProbe' = Len(store)
  /\ probes' = Inc(probes)
  /\ EndTick
  /\ UNCHANGED <<remote, files, dl, iterations, probed, sleeps, appVars>>

\* get_mdtm() returned None: _one_check logs and returns.
MonProbeFail ==
  /\ pc = "check"
  /\ \E reply \in Replies : get_mdtm(reply) = None
  /\ mdtm' = None
  /\ log' = Line("no_mdtm", None)
  /\ storeAtProbe' = Len(store)
  /\ probes' = Inc(probes)
  /\ EndTick
  /\ UNCHANGED <<remote, files, dl, iterations, prev_mdtm, probed, sleeps,
                 appVars>>

\* get_mdtm() returned the server's token and _one_check branches on it.
MonProbeOk ==
  /\ pc = "check"
  /\ \E reply \in Replies :
       LET m == get_mdtm(reply)
           b == Branch(prev_mdtm, m) IN
       /\ m # None
       /\ mdtm' = m
       /\ \/ /\ b = "initial"
             /\ StartDownload("mon", LOCAL_CSV)
             /\ pc' = "dl1"
             /\ log' = Line("initial_fetch", None)
             /\ UNCHANGED <<i, prev_mdtm>>
          \/ /\ b = "changed"
             /\ StartDownload("mon", SnapName(m))
             /\ pc' = "dl1"
             /\ log' = Line("change_detected", None)
             /\ UNCHANGED <<i, prev_mdtm>>
          \/ /\ b = "unchanged"
             /\ log' = Line("no_change", None)
             /\ prev_mdtm' = m
             /\ EndTick
             /\ UNCHANGED dl
  /\ probed' = TRUE
  /\ storeAtProbe' = Len(store)
  /\ probes' = Inc(probes)
  /\ UNCHANGED <<remote, files, iterations, sleeps, appVars>>

\* A step of the monitor's download_to.
MonDownload ==
  /\ pc \in {"dl1", "dl2"}
  /\ DlStep("mon")
  /\ UNCHANGED <<remote, monVars, appVars>>

\* Mutant of MonAfterDl1: a failed download returns before prev_mdtm = mdtm.
MonAfterDl1_KeepToken ==
  /\ pc = "dl1"
  /\ \/ /\ dl["mon"].phase = "ok"
        /\ StartDownload("mon", IF dl["mon"].path = LOCAL_CSV
                                  THEN SnapName(mdtm) ELSE LOCAL_CSV)
        /\ pc' = "dl2"
        /\ UNCHANGED <<i, prev_mdtm, log>>
     \/ /\ dl["mon"].phase = "failed"
        /\ log' = Line(IF dl["mon"].path = LOCAL_CSV THEN "initial_failed"
                                                 ELSE "snapshot_failed", None)
        /\ dl' = [dl EXCEPT !["mon"] = NoDl]
        /\ UNCHANGED prev_mdtm
        /\ EndTick
  /\ UNCHANGED <<remote, files, iterations, mdtm, probed, storeAtProbe,
                 probes, sleeps, appVars>>

\* Mutant of MonAfterDl1: the second download_to of the tick is left out.
MonAfterDl1_OneDownload ==
  /\ pc = "dl1"
  /\ \/ /\ dl["mon"].phase = "ok"
        /\ log' = Line(IF dl["mon"].path = LOCAL_CSV THEN "saved_initial"
                                                 ELSE "saved", SnapName(mdtm))
     \/ /\ dl["mon"].phase = "failed"
        /\ log' = Line(IF dl["mon"].path = LOCAL_CSV THEN "initial_failed"
                                                 ELSE "snapshot_failed", None)
  /\ dl' = [dl EXCEPT !["mon"] = NoDl]
  /\ prev_mdtm' = mdtm
  /\ EndTick
  /\ UNCHANGED <<remote, files, iterations, mdtm, probed, storeAtProbe,
                 probes, sleeps, appVars>>

\* The first download_to of the tick returned.
MonAfterDl1 ==
  /\ pc = "dl1"
  /\ \/ /\ dl["mon"].phase = "ok"
        /\ StartDownload("mon", IF dl["mon"].path = LOCAL_CSV
                                  THEN SnapName(mdtm) ELSE LOCAL_CSV)
        /\ pc' = "dl2"
        /\ UNCHANGED <<i, prev_mdtm, log>>
     \/ /\ dl["mon"].phase = "failed"
        /\ log' = Line(IF dl["mon"].path = LOCAL_CSV THEN "initial_failed"
                                                 ELSE "snapshot_failed", None)
        /\ dl' = [dl EXCEPT !["mon"] = NoDl]
        /\ prev_mdtm' = mdtm
        /\ EndTick
  /\ UNCHANGED <<remote, files, iterations, mdtm, probed, storeAtProbe,
                 probes, sleeps, appVars>>

\* The second download_to of the tick returned; its result is not looked at.
MonAfterDl2 ==
  /\ pc = "dl2"
  /\ dl["mon"].phase \in {"ok", "failed"}
  /\ log' = Line(IF dl["mon"].path = LOCAL_CSV THEN "saved" ELSE "saved_initial",
                 SnapName(mdtm))
  /\ dl' = [dl EXCEPT !["mon"] = NoDl]
  /\ prev_mdtm' = mdtm
  /\ EndTick
  /\ UNCHANGED <<remote, files, iterations, mdtm, probed, storeAtProbe,
                 probes, sleeps, appVars>>

\* time.sleep(interval) returns and the next iteration begins.
MonSleep ==
  /\ pc = "sleep"
  /\ pc' = "check"
  /\ mdtm' = None
  /\ sleeps' = Inc(sleeps)
  /\ UNCHANGED <<remote, files, dl, iterations, i, prev_mdtm, log, probed,
                 storeAtProbe, probes, appVars>>

Next ==
  \/ RemoteOverwrite
  \/ MonProbeFail
  \/ MonProbeOk
  \/ MonDownload
  \/ MonAfterDl1
  \/ MonAfterDl2
  \/ MonSleep

Spec == Init /\ [][Next]_vars

\* The steps of the monitor itself.  The program is sequential, every FTP
\* call carries a timeout and time.sleep returns: a step that can be taken
\* is taken.
MonNext ==
  \/ MonProbeFail
  \/ MonProbeOk
  \/ MonDownload
  \/ MonAfterDl1
  \/ MonAfterDl2
  \/ MonSleep

SpecFair == Init /\ [][Next]_vars /\ WF_vars(MonNext)

\* A log() call of the tick raises (ftp_monitor.log cannot be opened or
\* written): at the start of _one_check, or after a download_to has
\* returned.  The exception leaves _one_check before prev_mdtm = mdtm and
\* reaches the loop's except clause, which calls log() itself: that call
\* writes the line, or raises in turn and the exception leaves main.
MonCheckError ==
  /\ \/ pc = "check"
     \/ pc \in {"dl1", "dl2"} /\ dl["mon"].phase \in {"ok", "failed"}
  /\ dl' = [dl EXCEPT !["mon"] = NoDl]
  /\ \/ /\ log' = Line("check_error", None)
        /\ EndTick
     \/ /\ pc' = "crashed"
        /\ UNCHANGED <<i, log>>
  /\ UNCHANGED <<remote, files, iterations, prev_mdtm, mdtm, probed,
                 storeAtProbe, probes, sleeps, appVars>>

NextLogFail ==
  \/ Next
  \/ MonCheckError

\* The monitor where writing the log file can fail.
SpecLogFail == Init /\ [][NextLogFail]_vars

\* ------------------------------------------------------- the dashboard
\* A row of pv_readings.  id is the AUTOINCREMENT key and timestamp the
\* column's DEFAULT CURRENT_TIMESTAMP, which has a resolution of one second.
\* rev and whole are not columns: they record where the row's values came
\* from, the revision of the file that was read and whether the file read
\* was a complete copy.
Row(n, d, f) ==
  [id |-> n, timestamp |-> now, live_power |-> d.live_power,
   energy_today |-> d.energy_today, efficiency |-> d.efficiency,
   total_energy |-> d.total_energy,
   rev |-> f.rev, whole |-> Complete(f)]

Returned(r, s) == [ret |-> r, stored |-> s]

\* pd.read_csv(data_file) and df.iloc[-1]: an absent or empty file raises,
\* a file cut short may still hold a data row.
ParseOutcomes(f) ==
  IF ~f.ex \/ f.len = 0 THEN {"error"}
  ELSE IF f.len < FileLen THEN {"error", "ok"}
  ELSE {"ok"}

\* What revision r of the remote file parses to, where the content of the
\* file is not modelled: every revision carries values of its own, in a
\* row of the columns total_energy_kWh and energy_ptot_0_kWh.
Content(r) == Dict(r, Real(r, 1), Real(r, 1), <<0>>, <<r>>)

\* --- the parser, on a modelled content
\* A CSV content is empty (no byte) or a table: a header of column names
\* and data rows of as many cells.  A column is total_energy_kWh or
\* energy_ptot_<N>_kWh, where int tells whether int() accepts the text N
\* and n is the integer it gives; a cell is a number, empty (NaN) or other
\* text.
Ptot(n) == [k |-> "ptot", n |-> n, int |-> TRUE]
\* A column like energy_ptot_x_kWh.
PtotUnparsable == [k |-> "ptot", n |-> 0, int |-> FALSE]
Columns ==
  {[k |-> "total", n |-> 0, int |-> FALSE]} \cup {Ptot(n) : n \in 0..MaxIdx}
Cells ==
  [k : {"num"}, v : (-MaxVal)..MaxVal] \cup [k : {"nan", "text"}, v : {0}]
Headers ==
  UNION {{h \in [1..n -> Columns] : \A a, b \in 1..n : a # b => h[a] # h[b]}
           : n \in 1..MaxCols}
RowsOf(h) == UNION {[1..m -> [1..Len(h) -> Cells]] : m \in 0..MaxRows}
CsvInputs ==
  {[kind |-> "empty", header |-> <<>>, rows |-> <<>>]}
    \cup UNION {{[kind |-> "table", header |-> h, rows |-> rs]
                   : rs \in RowsOf(h)} : h \in Headers}

\* The key _ptot_index gives to a column whose index int() rejects.
Sentinel == 1000000000

\* _ptot_index(col)
ptot_index(col) == IF col.int THEN col.n ELSE Sentinel

\* sorted(prod_cols, key=_ptot_index): the positions in S of header h by
\* ascending key, equal keys in the order of the header.
RECURSIVE SortedByIndex(_, _)
SortedByIndex(h, S) ==
  IF S = {} THEN <<>>
  ELSE LET c == CHOOSE c \in S :
                  \A e \in S :
                    \/ ptot_index(h[c]) < ptot_index(h[e])
                    \/ ptot_index(h[c]) = ptot_index(h[e]) /\ c <= e
       IN  <<c>> \o SortedByIndex(h, S \ {c})

RECURSIVE SumSeq(_)
SumSeq(q) == IF q = <<>> THEN 0 ELSE Head(q) + SumSeq(Tail(q))

\* Mutant of LivePower: the first value of the curve is taken.
LivePower_First(vs) == IF vs = <<>> THEN 0 ELSE vs[1]

\* float(production_values[-1]) if production_values else 0.0
LivePower(vs) == IF vs = <<>> THEN 0 ELSE vs[Len(vs)]

\* Mutant of RowGet: the column total_energy_kWh is not looked at.
RowGet_Default(h, row, default) == default

\* float(row.get('total_energy_kWh', default)) where the cell is not text:
\* the cell of the column where the header has it, a NaN included, and the
\* default otherwise.
RowGet(h, row, default) ==
  LET totals == {p \in DOMAIN h : h[p].k = "total"}
      total == row[CHOOSE p \in totals : TRUE]
  IN  IF totals = {} THEN default
      ELSE IF total.k = "nan" THEN Null
      ELSE Real(total.v, 1)

\* The try block of fetch_pv_data up to the dictionary "parsed":
\* [ok |-> FALSE] stands for an exception raised on the way.
ParseCsv(c) ==
  LET failed == [ok |-> FALSE, dict |-> NoData] IN
  IF c.kind = "empty" THEN failed                 \* read_csv: EmptyDataError
  ELSE IF Len(c.rows) = 0 THEN failed             \* df.iloc[-1]: IndexError
  ELSE
    LET h == c.header
        row == c.rows[Len(c.rows)]
        prod_cols == SortedByIndex(h, {p \in DOMAIN h : h[p].k = "ptot"})
        kept == SelectSeq(prod_cols, LAMBDA p : row[p].k # "nan")
        production_values == [j \in DOMAIN kept |-> row[kept[j]].v]
        live_power == LivePower(production_values)
        energy_today == RowGet(h, row, Real(SumSeq(production_values), 1))
        total_energy == RowGet(h, row, Real(0, 1))
        \* list(range(len(production_values)))
        hours == [j \in DOMAIN kept |-> j - 1]
    IN  IF \/ \E j \in DOMAIN kept : row[kept[j]].k = "text"     \* float()
           \/ \E p \in DOMAIN h :
                h[p].k = "total" /\ row[p].k = "text"            \* float()
        THEN failed
        ELSE [ok |-> TRUE,
              dict |-> Dict(live_power, energy_today, total_energy, hours,
                            production_values)]

\* The outcomes of the try block on file f whose content is c.
ParseResults(f, c) ==
  IF c = NoCsv
  THEN {[ok |-> o = "ok", dict |-> Content(f.rev)] : o \in ParseOutcomes(f)}
  ELSE {ParseCsv(c)}

\* fetch_pv_data() is called and enters _download_ftp_csv(data_file).
AppFetch ==
  /\ appPc = "idle"
  /\ Len(store) < MaxStore
  /\ StartDownload("app", LOCAL_CSV)
  /\ appPc' = "download"
  /\ UNCHANGED <<remote, files, monVars, store, appResult, data, viewVars>>

\* A step of _download_ftp_csv.
AppDownload ==
  /\ appPc = "download"
  /\ DlStep("app")
  /\ UNCHANGED <<remote, monVars, appVars>>

\* _download_ftp_csv raised: st.error and st.stop() end the script run.
AppDownloadFailed ==
  /\ appPc = "download"
  /\ dl["app"].phase = "failed"
  /\ dl' = [dl EXCEPT !["app"] = NoDl]
  /\ appPc' = "idle"
  /\ appResult' = Returned("stopped", FALSE)
  /\ data' = NoData
  /\ UNCHANGED <<remote, files, monVars, store, viewVars>>

\* log_data(parsed, data_source) on the dictionary d read from file f: the
\* INSERT commits, or it raises and the except clause reports the error and
\* returns.
log_data(d, f, committed) ==
  store' = IF committed THEN Append(store, Row(Len(store) + 1, d, f))
           ELSE store

\* Mutant of ParseFailed: the all-zero dictionary is logged as well.
ParseFailed_Logged ==
  /\ appResult' = Returned("zeros", FALSE)
  /\ data' = ZeroDict
  /\ log_data(ZeroDict, files[LOCAL_CSV], TRUE)

\* The except clause of fetch_pv_data: the error is shown and the all-zero
\* dictionary is returned.
ParseFailed ==
  /\ appResult' = Returned("zeros", FALSE)
  /\ data' = ZeroDict
  /\ store' = store

\* _download_ftp_csv returned: pv.csv is read and parsed, the dictionary is
\* logged and returned; an exception on the way leads to the except clause.
AppParse ==
  /\ appPc = "download"
  /\ dl["app"].phase = "ok"
  /\ dl' = [dl EXCEPT !["app"] = NoDl]
  /\ appPc' = "idle"
  /\ \E o \in ParseResults(files[LOCAL_CSV], csv) :
       \/ /\ o.ok
          /\ \E committed \in BOOLEAN :
               /\ log_data(o.dict, files[LOCAL_CSV], committed)
               /\ appResult' = Returned("parsed", committed)
          /\ data' = o.dict
       \/ /\ ~o.ok
          /\ ParseFailed
  /\ UNCHANGED <<remote, files, monVars, viewVars>>

\* --- the clock
\* Seconds in an hour: the unit of CURRENT_TIMESTAMP against the unit of
\* datetime('now', '-<hours> hours').
Hour == 3600

\* Time passes: by a second or by an hour.
ClockTick ==
  /\ \E d \in {1, Hour} :
       /\ d = 1 => now % Hour < MaxSeconds
       /\ d = Hour => now \div Hour < MaxHours
       /\ now' = now + d
  /\ UNCHANGED <<remote, files, dl, monVars, store, appPc, appResult, data,
                 hist, stats, csv, viewPc, shown, derived>>

\* The dashboard alone: the monitor is not running.
InitApp ==
  /\ InitCommon
  /\ iterations = 1
  /\ pc = "off"

NextApp ==
  \/ RemoteOverwrite
  \/ ClockTick
  \/ AppFetch
  \/ AppDownload
  \/ AppDownloadFailed
  \/ AppParse

SpecApp == InitApp /\ [][NextApp]_vars

\* --- the monitor and the dashboard in one directory
\* ftp_monitor.py runs one tick while the dashboard fetches: LOCAL and
\* data_file are the same pv.csv.  The remote file does not change here.
\* Each process writes through a file object of its own; the model keeps
\* one length for the file, which is exact as long as one of them writes
\* at a time.
InitBoth ==
  /\ InitCommon
  /\ iterations = 1
  /\ pc = "check"

NextBoth ==
  \/ MonProbeFail
  \/ MonProbeOk
  \/ MonDownload
  \/ MonAfterDl1
  \/ MonAfterDl2
  \/ AppFetch
  \/ AppDownload
  \/ AppDownloadFailed
  \/ AppParse

SpecBoth == InitBoth /\ [][NextBoth]_vars

\* --- the derived fields
\* Bits of a binary64 significand.
Prec == 53

\* b + 1 on a sequence of bits that are not all 1: the last 0 becomes 1
\* and the 1s after it become 0.
IncBits(b) ==
  LET z == CHOOSE j \in DOMAIN b :
             b[j] = 0 /\ \A k \in DOMAIN b : k > j => b[k] = 1
  IN  [k \in DOMAIN b |-> IF k < z THEN b[k] ELSE IF k = z THEN 1 ELSE 0]

\* Mutant of Round: the bits below the 53rd are cut off.
Round_Truncate(neg, bits, e, sticky) ==
  [zero |-> FALSE, neg |-> neg, exp |-> e,
   sig |-> [k \in 1..Prec |-> IF k <= Len(bits) THEN bits[k] ELSE 0]]

\* Rounding to nearest, ties to even: the number (-1)^neg * 1.bits * 2^e,
\* plus something below its last bit when sticky, as a binary64 number.
Round(neg, bits, e, sticky) ==
  LET kept == [k \in 1..Prec |-> IF k <= Len(bits) THEN bits[k] ELSE 0]
      half == Len(bits) > Prec /\ bits[Prec + 1] = 1
      rest == sticky \/ \E k \in (Prec + 2)..Len(bits) : bits[k] = 1
      up == half /\ (rest \/ kept[Prec] = 1)
  IN  IF ~up THEN [zero |-> FALSE, neg |-> neg, exp |-> e, sig |-> kept]
      ELSE IF \A k \in 1..Prec : kept[k] = 1
           THEN [zero |-> FALSE, neg |-> neg, exp |-> e + 1,
                 sig |-> [k \in 1..Prec |-> IF k = 1 THEN 1 ELSE 0]]
           ELSE [zero |-> FALSE, neg |-> neg, exp |-> e, sig |-> IncBits(kept)]

RECURSIVE Pow2(_)
Pow2(k) == IF k = 0 THEN 1 ELSE 2 * Pow2(k - 1)

\* 2^k mod q, by repeated squaring.
RECURSIVE Pow2Mod(_, _)
Pow2Mod(k, q) ==
  IF k = 0 THEN 1 % q
  ELSE LET h == Pow2Mod(k \div 2, q)
       IN  (((h * h) % q) * (IF k % 2 = 1 THEN 2 ELSE 1)) % q

\* The first k bits of r/q after the point for 0 <= r < q, and what
\* remains: the long division, whose remainder after j bits is r * 2^j mod q.
DivBits(r, q, k) ==
  LET Rem(j) == (r * Pow2Mod(j, q)) % q
  IN  [bits |-> [j \in 1..k |-> IF 2 * Rem(j - 1) >= q THEN 1 ELSE 0],
       rem |-> Rem(k)]

\* The least k with q <= p * 2^k, for 0 < p < q.
RECURSIVE ShiftUp(_, _)
ShiftUp(p, q) == IF p >= q THEN 0 ELSE 1 + ShiftUp(2 * p, q)
\* The greatest k with q * 2^k <= p, for 0 < q <= p.
RECURSIVE ShiftDown(_, _)
ShiftDown(p, q) == IF 2 * q > p THEN 0 ELSE 1 + ShiftDown(p, 2 * q)
\* The binary64 number a decimal literal worth p/q denotes (p, q > 0): the
\* nearest one, ties to even.
Literal(p, q) ==
  LET e == IF p >= q THEN ShiftDown(p, q) ELSE 0 - ShiftUp(p, q)
      pp == IF e < 0 THEN p * Pow2(0 - e) ELSE p
      qq == IF e > 0 THEN q * Pow2(e) ELSE q
      d == DivBits(pp - qq, qq, Prec)
  IN  Round(FALSE, <<1>> \o d.bits, e, d.rem # 0)

\* The product is computed in limbs of LimbBits bits.
LimbBits == 16
Limb == Pow2(LimbBits)

\* The number the bits b[first..last] spell, the highest first.
RECURSIVE Val(_, _, _)
Val(b, first, last) ==
  IF first > last THEN 0
  ELSE IF first = last THEN b[first]
  ELSE LET mid == (first + last) \div 2
       IN  Val(b, first, mid) * Pow2(last - mid) + Val(b, mid + 1, last)

\* The limbs of b * n + carry * Limb^l from limb l on, the lowest first,
\* for the bits b and 0 < n < Limb \div 2.
RECURSIVE MulLimbs(_, _, _, _)
MulLimbs(b, n, l, carry) ==
  IF l * LimbBits >= Len(b) THEN <<carry>>
  ELSE LET lo == Len(b) - l * LimbBits
           hi == IF lo > LimbBits THEN lo - LimbBits + 1 ELSE 1
           t == Val(b, hi, lo) * n + carry
       IN  <<t % Limb>> \o MulLimbs(b, n, l + 1, t \div Limb)

\* The bits of b * n, the highest (a 1) first.
MulBits(b, n) ==
  LET limbs == MulLimbs(b, n, 0, 0)
      BitAt(k) == (limbs[(k \div LimbBits) + 1] \div Pow2(k % LimbBits)) % 2
      top == CHOOSE k \in 0..(LimbBits * Len(limbs) - 1) :
               /\ BitAt(k) = 1
               /\ \A j \in (k + 1)..(LimbBits * Len(limbs) - 1) : BitAt(j) = 0
  IN  [k \in 1..(top + 1) |-> BitAt(top + 1 - k)]

\* The float product n * c of the whole number n, which float() holds
\* exactly, and the positive binary64 number c.
Times(n, c) ==
  IF n = 0 THEN Zero64
  ELSE LET m == IF n < 0 THEN 0 - n ELSE n
           bits == MulBits(c.sig, m)
       IN  Round(n < 0, bits, c.exp + (Len(bits) - Prec), FALSE)

\* The inputs of the products: live_power and total_energy.
PowerInputs == (0 - MaxPower)..MaxPower
EnergyInputs == 0..MaxEnergy

\* co2_avoided, ac_power and dc_power of fetch_pv_data.
Derive ==
  /\ ~derived.done
  /\ \E live_power \in PowerInputs, total_energy \in EnergyInputs :
       derived' =
         [done |-> TRUE, live_power |-> live_power,
          total_energy |-> total_energy,
          co2_avoided |-> Times(total_energy, Literal(366, 1000)),
          ac_power |-> IF live_power # 0
                       THEN Times(live_power, Literal(92, 100)) ELSE Zero64,
          dc_power |-> IF live_power # 0
                       THEN Times(live_power, Literal(102, 100)) ELSE Zero64]
  /\ UNCHANGED <<remote, files, dl, monVars, store, appPc, appResult, data,
                 now, hist, stats, csv, viewPc, shown>>

NextDerive == Derive

SpecDerive == InitApp /\ [][NextDerive]_vars

\* --- the parser alone
\* fetch_pv_data has just downloaded a complete pv.csv.
InitAtParse ==
  /\ remote \in [mdtm : Tokens, rev : {1}]
  /\ files = [p \in Paths |-> IF p = LOCAL_CSV THEN FileOf(1) ELSE Absent]
  /\ dl = [p \in Procs |->
             IF p = "app"
             THEN [phase |-> "ok", path |-> LOCAL_CSV, rev |-> 1,
                   prior |-> Absent]
             ELSE NoDl]
  /\ iterations = 1 /\ i = 0 /\ pc = "off"
  /\ prev_mdtm = None /\ mdtm = None /\ log = Line("start", None)
  /\ probed = FALSE /\ storeAtProbe = 0 /\ probes = 0 /\ sleeps = 0
  /\ now = 0 /\ hist = NoHist /\ stats = NoStats
  /\ viewPc = "idle" /\ shown = NoShown /\ derived = NoDerived
  /\ store \in {<<>>, <<Row(1, Content(1), FileOf(1))>>}
  /\ appPc = "download" /\ appResult = "none"
  /\ data = NoData

\* The downloaded pv.csv has some content.
InitParse ==
  /\ InitAtParse
  /\ csv \in CsvInputs

NextParse == AppParse

SpecParse == InitParse /\ [][NextParse]_vars

\* --- the ordering of the columns
\* Tables of up to MaxSortCols columns energy_ptot_<N>_kWh with one data
\* row, in which the cell of a column is the column's position in the
\* header: a value of the curve tells which column it came from.  N is an
\* integer up to MaxSortIdx, an integer above the sentinel, or no integer.
SortColumns ==
  {Ptot(n) : n \in 0..MaxSortIdx} \cup {PtotUnparsable, Ptot(Sentinel + 1)}
SortHeaders ==
  UNION {{h \in [1..n -> SortColumns] :
            \A a, b \in 1..n : a # b => h[a] # h[b]} : n \in 1..MaxSortCols}
SortInputs ==
  {[kind |-> "table", header |-> h,
    rows |-> <<[p \in DOMAIN h |-> [k |-> "num", v |-> p]]>>]
     : h \in SortHeaders}

InitSort ==
  /\ InitAtParse
  /\ csv \in SortInputs

NextSort == AppParse

SpecSort == InitSort /\ [][NextSort]_vars

\* --- the queries of the store
\* Mutant of InWindow: a row exactly h hours old is left out.
InWindow_Strict(h) ==
  {k \in DOMAIN store : store[k].timestamp > now - h * Hour}

\* The rows of the trailing h hours:
\* WHERE timestamp >= datetime('now', '-h hours').
InWindow(h) == {k \in DOMAIN store : store[k].timestamp >= now - h * Hour}

\* ORDER BY timestamp DESC on the rows S: every order of S in which no
\* timestamp is followed by a later one.  SQL leaves the order of rows of
\* equal timestamp open.
OrderByTimestampDesc(S) ==
  {q \in [1..Cardinality(S) -> S] :
     /\ \A a, b \in DOMAIN q : a # b => q[a] # q[b]
     /\ \A a, b \in DOMAIN q :
          a < b => store[q[a]].timestamp >= store[q[b]].timestamp}

\* The DataFrames get_historical_data(h) can return when its query succeeds.
get_historical_data(h) ==
  {[k \in DOMAIN q |-> store[q[k]]] : q \in OrderByTimestampDesc(InWindow(h))}

\* get_historical_data(hours) is called: the query's rows are returned, or
\* an exception is reported and an empty DataFrame is returned.
GetHistoricalData ==
  /\ \E h \in 1..MaxWindow :
       \/ \E r \in get_historical_data(h) :
            hist' = [called |-> TRUE, hours |-> h, err |-> FALSE, rows |-> r]
       \/ hist' = [called |-> TRUE, hours |-> h, err |-> TRUE, rows |-> <<>>]
  /\ UNCHANGED <<remote, files, dl, monVars, store, appPc, appResult, data,
                 now, stats, csv, viewPc, shown, derived>>

RECURSIVE SumOver(_, _)
SumOver(f, S) ==
  IF S = {} THEN 0
  ELSE LET k == CHOOSE k \in S : TRUE IN f[k] + SumOver(f, S \ {k})

\* The one row of get_data_statistics' SELECT.  An aggregate other than
\* COUNT over no row is NULL, and so is NULL / 0.
get_data_statistics(h) ==
  LET W == InWindow(h)
      n == Cardinality(W)
      power == [k \in W |-> store[k].live_power]
      eff == [k \in W |-> store[k].efficiency]
      E == {k \in W : ~store[k].energy_today.null}
      energy == [k \in E |-> store[k].energy_today.num]
  IN  [called |-> TRUE, hours |-> h, keys |-> StatKeys,
       reading_count |-> n,
       avg_power |-> IF n = 0 THEN Null ELSE Real(SumOver(power, W), n),
       max_power |-> IF n = 0 THEN Null
                     ELSE Real(CHOOSE m \in {power[k] : k \in W} :
                                 \A k \in W : power[k] <= m, 1),
       min_power |-> IF n = 0 THEN Null
                     ELSE Real(CHOOSE m \in {power[k] : k \in W} :
                                 \A k \in W : power[k] >= m, 1),
       avg_efficiency |-> IF n = 0 THEN Null ELSE Real(SumOver(eff, W), n),
       avg_daily_energy |-> IF E = {} THEN Null
                            ELSE Real(SumOver(energy, E), n)]

\* get_data_statistics(hours) is called: the row is returned as a
\* dictionary, or an exception is reported and {} is returned.
GetDataStatistics ==
  /\ \E h \in 1..MaxWindow :
       \/ stats' = get_data_statistics(h)
       \/ stats' = EmptyStats(TRUE, h)
  /\ UNCHANGED <<remote, files, dl, monVars, store, appPc, appResult, data,
                 now, hist, csv, viewPc, shown, derived>>

\* fetch_pv_data reaches log_data with the dictionary of some revision.
StoreAppend ==
  /\ Len(store) < MaxStore
  /\ \E r \in 1..MaxRev, committed \in BOOLEAN :
       log_data(Content(r), FileOf(r), committed)
  /\ UNCHANGED <<remote, files, dl, monVars, appPc, appResult, data,
                 viewVars>>

\* The store, its clock and its queries.
NextStore ==
  \/ ClockTick
  \/ StoreAppend
  \/ GetHistoricalData
  \/ GetDataStatistics

SpecStore == InitApp /\ [][NextStore]_vars

\* --- the historical view
\* What a get_historical_data(h) call can return.
HistResults(h) ==
  {[called |-> TRUE, hours |-> h, err |-> FALSE, rows |-> r]
     : r \in get_historical_data(h)}
    \cup {[called |-> TRUE, hours |-> h, err |-> TRUE, rows |-> <<>>]}

\* What a get_data_statistics(h) call can return.
StatsResults(h) == {get_data_statistics(h), EmptyStats(TRUE, h)}

\* Mutant of Empty: no DataFrame counts as empty.
Empty_Never(df) == FALSE

\* historical_df.empty
Empty(df) == df = <<>>

\* The statistics show_historical_view calculates from the DataFrame df:
\* len, mean, max and min; mean skips the cells that hold no number.
FrameStatistics(df, h) ==
  LET D == DOMAIN df
      power == [k \in D |-> df[k].live_power]
      eff == [k \in D |-> df[k].efficiency]
      E == {k \in D : ~df[k].energy_today.null}
      energy == [k \in E |-> df[k].energy_today.num]
  IN  [called |-> TRUE, hours |-> h, keys |-> StatKeys,
       reading_count |-> Len(df),
       avg_power |-> IF D = {} THEN Null ELSE Real(SumOver(power, D), Len(df)),
       max_power |-> IF D = {} THEN Null
                     ELSE Real(CHOOSE m \in {power[k] : k \in D} :
                                 \A k \in D : power[k] <= m, 1),
       min_power |-> IF D = {} THEN Null
                     ELSE Real(CHOOSE m \in {power[k] : k \in D} :
                                 \A k \in D : power[k] >= m, 1),
       avg_efficiency |-> IF D = {} THEN Null
                          ELSE Real(SumOver(eff, D), Len(df)),
       avg_daily_energy |-> IF E = {} THEN Null
                            ELSE Real(SumOver(energy, E), Cardinality(E))]

\* show_historical_view up to its statistics cards: the range query is
\* made; an empty DataFrame is answered by the warning "No historical data
\* yet." and the function returns.
ViewQuery ==
  /\ viewPc = "idle"
  /\ \E h \in 1..MaxWindow : hist' \in HistResults(h)
  /\ IF Empty(hist'.rows)
     THEN /\ shown' = [kind |-> "no_data", stats |-> NoStats]
          /\ viewPc' = "idle"
     ELSE /\ shown' = NoShown
          /\ viewPc' = "stats"
  /\ UNCHANGED <<remote, files, dl, monVars, store, appPc, appResult, data,
                 now, stats, csv, derived>>

\* show_historical_view from its statistics cards on: the aggregate query
\* is made for the same time range; when it has no result or counts no row,
\* the statistics are calculated from the DataFrame; they are rendered.
ViewStats ==
  /\ viewPc = "stats"
  /\ stats' \in StatsResults(hist.hours)
  /\ shown' = [kind |-> "stats",
               stats |-> IF stats'.keys = {} \/ stats'.reading_count = 0
                         THEN FrameStatistics(hist.rows, hist.hours)
                         ELSE stats']
  /\ viewPc' = "idle"
  /\ UNCHANGED <<remote, files, dl, monVars, store, appPc, appResult, data,
                 now, hist, csv, derived>>

\* The historical view of one session, the clock, and the appends of the
\* other sessions.
NextView ==
  \/ ClockTick
  \/ StoreAppend
  \/ ViewQuery
  \/ ViewStats

SpecView == InitApp /\ [][NextView]_vars

\* ===================================================================
\* Properties
\* ===================================================================
TickEnded == pc \in {"sleep", "done"}
Saved == log.kind \in {"saved", "saved_initial"}
DownloadFailedLine == log.kind \in {"initial_failed", "snapshot_failed"}
\* The step is this tick's probe and it returned a token.
ProbeReturnsToken == pc = "check" /\ mdtm' # None
\* The step is this tick's probe and it returned None.
ProbeReturnsNone == pc = "check" /\ pc' # "check" /\ mdtm' = None

\* C1: a tick whose probe succeeds with a token equal to the last-seen token
\* starts no download, writes no file ('latest' or archive) and appends no
\* record; the tick ends in that very step.
C1_UnchangedTokenNoDownload ==
  [][(ProbeReturnsToken /\ mdtm' = prev_mdtm)
       => (files' = files /\ dl' = dl /\ store' = store /\ TickEnded')]_vars

\* C1 witness: a second tick found the token unchanged, after the first tick
\* had fetched both files.
C1_Witness ==
  /\ TickEnded /\ log.kind = "no_change" /\ i >= 2
  /\ Complete(files[LOCAL_CSV]) /\ Complete(files[SnapName(prev_mdtm)])

\* C2: the store holds at most one record per revision of the remote file.
C2_OneRecordPerRevision ==
  \A a, b \in DOMAIN store : a # b => store[a].rev # store[b].rev

\* C3: when the download of a tick fails, the tick ends with the last-seen
\* token as it was before the tick.
C3_FailedDownloadKeepsToken ==
  [][(pc \in {"dl1", "dl2"} /\ dl["mon"].phase = "failed" /\ TickEnded')
       => prev_mdtm' = prev_mdtm]_vars

\* C4: the last-seen token is None at startup, and at the end of every tick
\* whose probe returned a token it equals that token, whether the tick
\* downloaded, skipped the download or failed to download.
C4_TokenFollowsProbe ==
  /\ (i = 0 /\ pc = "check") => prev_mdtm = None
  /\ (TickEnded /\ mdtm # None) => prev_mdtm = mdtm

\* C4 witness: a tick whose download failed has ended with the probed token
\* as the last-seen one.
C4_Witness ==
  TickEnded /\ DownloadFailedLine /\ mdtm # None /\ prev_mdtm = mdtm

\* C5: a tick whose probe fails starts no download, writes no file, leaves
\* the last-seen token alone and ends.
C5_FailedProbeChangesNothing ==
  [][ProbeReturnsNone
       => (files' = files /\ dl' = dl /\ store' = store
           /\ prev_mdtm' = prev_mdtm /\ TickEnded')]_vars

\* C5 witness: a probe failed after an earlier tick had recorded a token,
\* and the token is still recorded.
C5_Witness ==
  TickEnded /\ log.kind = "no_mdtm" /\ prev_mdtm # None

\* C6: the step in which the first probe since startup succeeds enters a
\* download, whatever the token and however many probes failed before it.
C6_FirstProbeDownloads ==
  [][(~probed /\ probed')
       => (pc' = "dl1" /\ dl'["mon"].phase = "connect")]_vars

\* C6 witness: the first successful probe came after a failed tick.
C6_Witness ==
  probed /\ pc = "dl1" /\ prev_mdtm = None /\ i >= 1

C8_AtomicDownload ==
  \A p \in Procs :
    dl[p].phase # "none"
      => \/ files[dl[p].path] = dl[p].prior
         \/ files[dl[p].path] = FileOf(dl[p].rev)

\* C9: after a failed download the destination holds what it held before
\* the download started.
C9_FailedDownloadKeepsFile ==
  \A p \in Procs :
    dl[p].phase = "failed" => files[dl[p].path] = dl[p].prior

\* C10: when a tick has logged a saved snapshot for token t, the archive
\* file of t and the 'latest' file both exist complete at the end of the tick.
C10_SavedMeansBothComplete ==
  (TickEnded /\ Saved)
    => (Complete(files[log.snap]) /\ Complete(files[LOCAL_CSV]))

\* C11: once the archive file of a token is complete, no step changes it.
C11_ArchiveAppendOnly ==
  [][\A t \in Tokens :
       Complete(files[SnapName(t)])
         => files'[SnapName(t)] = files[SnapName(t)]]_vars

\* C12: whatever fails in a tick, the tick is followed by the sleep before
\* the next tick, or by the end of the loop when the tick bound is reached.
C12_FailuresKeepLoopRunning ==
  [][(pc \in {"check", "dl1", "dl2"} /\ pc' \notin {"check", "dl1", "dl2"})
       => pc' = IF iterations > 0 /\ i' >= iterations THEN "done"
                                                       ELSE "sleep"]_vars

\* The counters at each position of a run of a given number of iterations.
BoundedRunCounts ==
  /\ pc = "check" => (i < iterations /\ probes = i /\ sleeps = i)
  /\ pc \in {"dl1", "dl2"} => (i < iterations /\ probes = i + 1 /\ sleeps = i)
  /\ pc = "sleep" => (i < iterations /\ probes = i /\ sleeps = i - 1)
  /\ pc = "done" => (i = iterations /\ probes = i /\ sleeps = i - 1)

NoFailure ==
  /\ dl["mon"].phase # "failed"
  /\ log.kind \notin {"no_mdtm", "initial_failed", "snapshot_failed"}

\* C14: in a continuous run, when the remote token stays at t and from some
\* point on no probe and no download fails, a complete archive file of t
\* and a complete 'latest' file eventually exist.
C14_RetryLiveness ==
  \A t \in Tokens :
    (iterations = 0 /\ <>[](remote.mdtm = t /\ NoFailure))
      => <>(Complete(files[SnapName(t)]) /\ Complete(files[LOCAL_CSV]))

\* C15: a fetch_pv_data call whose store write failed does not return the
\* Reading to its caller as if it had been recorded.
C15_AppendFailurePropagates ==
  [][(appPc = "download" /\ appPc' = "idle")
       => appResult' # Returned("parsed", FALSE)]_vars

\* C16: a get_historical_data(h) call whose query succeeds returns exactly
\* the stored rows whose timestamp lies in the trailing h hours, each once,
\* the most recent first; with no such row it returns the empty result.
C16_RangeQuery ==
  [][(hist' # hist /\ ~hist'.err)
       => LET r == hist'.rows
              inRange == {k \in DOMAIN store :
                            /\ store[k].timestamp >= now - hist'.hours * Hour
                            /\ store[k].timestamp <= now}
          IN  /\ {r[k] : k \in DOMAIN r} = {store[k] : k \in inRange}
              /\ Len(r) = Cardinality(inRange)
              /\ \A a, b \in DOMAIN r :
                   a < b => r[a].timestamp >= r[b].timestamp]_vars

\* C16 witness: of three rows appended an hour apart, a query over the
\* last hour asked at the time of the third returned the third and the
\* second, in this order, and not the first.
C16_Witness ==
  /\ hist.called /\ ~hist.err /\ Len(store) = 3 /\ Len(hist.rows) = 2
  /\ hist.rows[1] = store[3] /\ hist.rows[2] = store[2]
  /\ store[3].timestamp = now
  /\ store[2].timestamp = now - hist.hours * Hour
  /\ store[1].timestamp < store[2].timestamp

IsZero(v) == ~v.null /\ v.num = 0

\* C17: the statistics of a window holding no row have count 0 and every
\* other field equal to 0, and differ from the result of a failed query.
C17_EmptyWindowAllZero ==
  (stats.called /\ stats.keys # {} /\ stats.reading_count = 0)
    => /\ IsZero(stats.avg_power) /\ IsZero(stats.max_power)
       /\ IsZero(stats.min_power) /\ IsZero(stats.avg_efficiency)
       /\ IsZero(stats.avg_daily_energy)
       /\ stats # EmptyStats(TRUE, stats.hours)

\* C18: the timestamps of the stored rows increase strictly in the order
\* of insertion.
C18_TimestampsStrictlyIncrease ==
  \A a, b \in DOMAIN store :
    a < b => store[a].timestamp < store[b].timestamp

\* C19: after fetch_pv_data has parsed a pv.csv of fewer than 2 rows (no
\* byte, or a header alone), main holds no dictionary of values.
C19_TooFewRowsNoReading ==
  (appPc = "idle" /\ csv # NoCsv
     /\ (csv.kind = "empty" \/ Len(csv.rows) = 0))
    => ~data.dict

\* C20: a fetch_pv_data call whose parsing failed leaves the stored rows
\* as they were.
C20_ParseFailureAppendsNothing ==
  [][(appPc = "download" /\ appPc' = "idle"
        /\ appResult' = Returned("zeros", FALSE))
       => store' = store]_vars

\* C20 witness: a table with a data row failed to parse (a cell that is
\* not a number) and the store still holds its one earlier row.
C20_Witness ==
  /\ appPc = "idle" /\ appResult = Returned("zeros", FALSE)
  /\ csv.kind = "table" /\ Len(csv.rows) > 0
  /\ Len(store) = 1

\* fetch_pv_data has returned the dictionary it parsed from csv.
Parsed == appPc = "idle" /\ csv # NoCsv /\ appResult.ret = "parsed"
\* The row fetch_pv_data reads: the last one.
LastRow == csv.rows[Len(csv.rows)]
\* The columns energy_ptot_<N>_kWh whose cell of the last row is a number.
ValidPtot ==
  {p \in DOMAIN csv.header :
     csv.header[p].k = "ptot" /\ LastRow[p].k = "num"}

\* C21: a table of per-point columns without an empty cell parses without
\* error, and in the curve a value of a column with the integer N comes
\* before the values of the columns with a larger N and before the values
\* of the columns whose index is no integer.
C21_CurveOrdering ==
  (appPc = "idle" /\ csv # NoCsv)
    => /\ appResult.ret = "parsed"
       /\ Len(data.production_curve.values) = Len(csv.header)
       /\ LET v == data.production_curve.values
              col(j) == csv.header[v[j]]
          IN  \A a, b \in DOMAIN v :
                a < b => /\ (col(a).int /\ col(b).int) => col(a).n <= col(b).n
                         /\ ~(~col(a).int /\ col(b).int)

\* C22: live_power is the value of the valid per-point column of the
\* largest index, and it is 0, with an empty curve and no error, when no
\* per-point column has a valid value.
C22_LivePower ==
  (appPc = "idle" /\ csv # NoCsv /\ csv.kind = "table" /\ Len(csv.rows) > 0
     /\ \A p \in DOMAIN LastRow : LastRow[p].k # "text")
    => /\ appResult.ret = "parsed"
       /\ IF ValidPtot = {}
          THEN data.live_power = 0 /\ data.production_curve.values = <<>>
          ELSE \E p \in ValidPtot :
                 /\ \A q \in ValidPtot : csv.header[q].n <= csv.header[p].n
                 /\ data.live_power = LastRow[p].v

\* C22 witness: of two per-point columns the one of the larger index stands
\* first in the header and its cell is empty; live_power is the cell of the
\* other one, which is not 0.
C22_Witness ==
  /\ Parsed /\ Len(csv.header) = 2
  /\ csv.header[1].k = "ptot" /\ csv.header[2].k = "ptot"
  /\ csv.header[1].n > csv.header[2].n
  /\ LastRow[1].k = "nan" /\ LastRow[2].k = "num" /\ LastRow[2].v # 0
  /\ data.live_power = LastRow[2].v

\* The cell of the column total_energy_kWh as a number, a NaN included.
TotalField ==
  LET p == CHOOSE p \in DOMAIN csv.header : csv.header[p].k = "total"
  IN  IF LastRow[p].k = "nan" THEN Null ELSE Real(LastRow[p].v, 1)

\* C23: with a column total_energy_kWh, energy_today and total_energy are
\* its cell; without one, energy_today is the sum of the curve's values and
\* total_energy is 0.
C23_EnergyFields ==
  Parsed
    => IF \E p \in DOMAIN csv.header : csv.header[p].k = "total"
       THEN data.energy_today = TotalField /\ data.total_energy = TotalField
       ELSE /\ data.energy_today
                 = Real(SumOver([p \in ValidPtot |-> LastRow[p].v], ValidPtot),
                        1)
            /\ data.total_energy = Real(0, 1)

\* C23 witness: a table without total_energy_kWh whose two per-point cells
\* add up to more than either.
C23_Witness ==
  /\ Parsed /\ Cardinality(ValidPtot) = 2
  /\ \A p \in ValidPtot : LastRow[p].v > 0
  /\ data.total_energy = Real(0, 1)
  /\ data.energy_today.num > data.live_power

\* C25: no stored row has a negative total_energy, and no value of a
\* parsed curve is negative.
C25_NonNegative ==
  /\ \A k \in DOMAIN store :
       ~store[k].total_energy.null => store[k].total_energy.num >= 0
  /\ Parsed => \A j \in DOMAIN data.production_curve.values :
                 data.production_curve.values[j] >= 0

\* C27: the index attached to the j-th value of the curve is the N of the
\* column the value came from, the j-th smallest N of the columns with a
\* valid cell, and the curve has as many pairs as there are such columns.
C27_CurveCarriesColumnIndex ==
  Parsed
    => LET c == data.production_curve IN
       /\ Len(c.hours) = Cardinality(ValidPtot)
       /\ Len(c.values) = Cardinality(ValidPtot)
       /\ \A j \in DOMAIN c.hours :
            \E p \in ValidPtot :
              /\ csv.header[p].n = c.hours[j]
              /\ LastRow[p].v = c.values[j]
              /\ Cardinality({q \in ValidPtot :
                                csv.header[q].n < csv.header[p].n}) = j - 1

\* C26: a range query that returns no record is answered by the 'no data'
\* message, and no aggregate is computed or shown; one that returns records
\* is followed by the statistics, which are the stored table's aggregate,
\* or are calculated from the returned records when that aggregate is
\* missing or counts 0.
C26_NoDataResult ==
  [][/\ (viewPc = "idle"
           /\ (hist' # hist \/ shown' # shown \/ viewPc' # viewPc))
        => IF hist'.rows = <<>>
           THEN shown'.kind = "no_data" /\ viewPc' = "idle" /\ stats' = stats
           ELSE shown'.kind = "none" /\ viewPc' = "stats"
     /\ (viewPc = "stats" /\ viewPc' = "idle")
        => /\ hist.rows # <<>>
           /\ shown'.kind = "stats"
           /\ IF stats'.keys = {} \/ stats'.reading_count = 0
              THEN /\ shown'.stats.reading_count = Len(hist.rows)
                   /\ shown'.stats.avg_power
                        = Real(SumOver([k \in DOMAIN hist.rows
                                          |-> hist.rows[k].live_power],
                                       DOMAIN hist.rows), Len(hist.rows))
              ELSE shown'.stats = stats']_vars

\* C26 witness: the range query returned records, the aggregate query that
\* followed counted none, and the statistics shown are those of the
\* returned records.
C26_Witness ==
  /\ viewPc = "idle" /\ shown.kind = "stats"
  /\ stats.keys # {} /\ stats.reading_count = 0
  /\ Len(hist.rows) > 0
  /\ shown.stats.reading_count = Len(hist.rows)
  /\ ~shown.stats.avg_power.null

\* C30: the reading count shown with the statistics is the number of
\* records the range query of the same rendering returned.
C30_CountMatchesRangeQuery ==
  (viewPc = "idle" /\ shown.kind = "stats")
    => shown.stats.reading_count = Len(hist.rows)

\* C28: when both download_to calls of a tick have succeeded, the 'latest'
\* file and the archive file named for the tick's token hold the content of
\* the same revision of the remote file.
C28_LatestEqualsArchive ==
  (pc = "dl2" /\ dl["mon"].phase = "ok")
    => files[LOCAL_CSV].rev = files[SnapName(mdtm)].rev

\* C29: every row fetch_pv_data has appended was parsed from a pv.csv that
\* held one complete downloaded copy of the remote file when it was read.
C29_ReadsCompleteCopy ==
  \A k \in DOMAIN store : store[k].whole

\* The four bits of the hexadecimal digit d, the highest first.
HexDigit(d) == <<(d \div 8) % 2, (d \div 4) % 2, (d \div 2) % 2, d % 2>>
\* The positive binary64 number float.hex() writes 0x1.<digits>p<e>.
Hex64(digits, e) ==
  [zero |-> FALSE, neg |-> FALSE, exp |-> e,
   sig |-> [k \in 1..Prec |->
              IF k = 1 THEN 1 ELSE HexDigit(digits[(k + 2) \div 4])[((k + 2) % 4) + 1]]]

\* C24: ac_power, dc_power and co2_avoided are the float products of
\* live_power with 0.92 and 1.02 and of total_energy with 0.366;
\* total_energy = 100.0 gives co2_avoided = 36.6 and live_power = 5.0 gives
\* dc_power = 5.1, both exactly, and ac_power = 4.6000000000000005, the
\* float next above 4.6.
C24_DerivedFields ==
  derived.done =>
    /\ derived.ac_power = Times(derived.live_power, Literal(92, 100))
    /\ derived.dc_power = Times(derived.live_power, Literal(102, 100))
    /\ derived.co2_avoided = Times(derived.total_energy, Literal(366, 1000))
    /\ derived.total_energy = 100 =>
         /\ derived.co2_avoided = Literal(366, 10)
         /\ derived.co2_avoided = Hex64(<<2,4,12,12,12,12,12,12,12,12,12,12,13>>, 5)
    /\ derived.live_power = 5 =>
         /\ derived.dc_power = Literal(51, 10)
         /\ derived.dc_power = Hex64(<<4,6,6,6,6,6,6,6,6,6,6,6,6>>, 2)
         /\ derived.ac_power = Hex64(<<2,6,6,6,6,6,6,6,6,6,6,6,7>>, 2)
         /\ derived.ac_power = [Literal(46, 10) EXCEPT !.sig = IncBits(@)]

\* C24 witness: the products of live_power = 5.0 and total_energy = 100.0
\* have been computed.
C24_Witness ==
  derived.done /\ derived.live_power = 5 /\ derived.total_energy = 100

\* C24 as stated: live_power = 5.0 gives ac_power = 4.6.
C24_AcPowerExact ==
  (derived.done /\ derived.live_power = 5)
    => derived.ac_power = Literal(46, 10)

=============================================================================
